---------------------------- MODULE Spec2Model ----------------------------
(***************************************************************************)
(* Portfolio consolidation and tax-lot accounting engine                   *)
(* (services/investmentEngine.ts, calculateConsolidatedData).              *)
(*                                                                         *)
(* The engine sorts the transaction list by date, replays it once over     *)
(* per-position state (running lots, average cost), records realized       *)
(* gains with their matched lots, keeps an equity curve, and finally       *)
(* aggregates a monthly tax report.                                        *)
(*                                                                         *)
(* Numbers: the engine computes with JavaScript numbers.  They are         *)
(* modelled as exact rationals [n |-> numerator, d |-> denominator > 0] in *)
(* lowest terms, so that every division, proration and comparison against  *)
(* EPSILON is computed, and two numbers are equal iff their records are.   *)
(***************************************************************************)
EXTENDS Integers, Sequences, FiniteSets

-----------------------------------------------------------------------------
(* Exact rational arithmetic *)

Abs(x) == IF x < 0 THEN -x ELSE x

RECURSIVE GCD(_, _)
GCD(a, b) == IF b = 0 THEN a ELSE GCD(b, a % b)

\* The rational n/d (d # 0) in lowest terms with a positive denominator.
Rat(n, d) ==
    LET g == GCD(Abs(n), Abs(d))
        s == IF d < 0 THEN -1 ELSE 1
    IN  [n |-> (s * n) \div g, d |-> (s * d) \div g]

Num(i)      == [n |-> i, d |-> 1]
Zero        == Num(0)
RAdd(a, b)  == Rat(a.n * b.d + b.n * a.d, a.d * b.d)
RSub(a, b)  == Rat(a.n * b.d - b.n * a.d, a.d * b.d)
RMul(a, b)  == Rat(a.n * b.n, a.d * b.d)
RDiv(a, b)  == Rat(a.n * b.d, a.d * b.n)
RLt(a, b)   == a.n * b.d < b.n * a.d
RLe(a, b)   == a.n * b.d <= b.n * a.d
RMin(a, b)  == IF RLt(b, a) THEN b ELSE a
RMax(a, b)  == IF RLt(a, b) THEN b ELSE a
IsZero(a)   == a.n = 0

\* const EPSILON = 0.00000001, as the rational 1 / EpsilonDen.
EpsilonDen == 100000000

\* x > EPSILON.  n/d > 1/E  <=>  n*E > d  <=>  n > d \div E (n an integer);
\* written without the product n*E, which leaves the machine integers.
GtEpsilon(x) == x.n > x.d \div EpsilonDen

\* x <= EPSILON
LeEpsilon(x) == ~GtEpsilon(x)

\* Math.abs(x) < EPSILON.  |n|*E < d  <=>  |n| < ceiling(d / E).
AbsLtEpsilon(x) == Abs(x.n) < (x.d + EpsilonDen - 1) \div EpsilonDen


-----------------------------------------------------------------------------
(* Types (types.ts) *)

Country   == [BR |-> "BR", USA |-> "EUA"]
AssetCategory == [VARIABLE |-> "Renda Variavel", FIXED |-> "Renda Fixa",
                  FII |-> "Fundo Imobiliario"]
TransactionType == [BUY |-> "Compra", SELL |-> "Venda", DIVIDEND |-> "Dividendo",
                    BONUS |-> "Bonificacao", SPLIT |-> "Desdobramento/Grupamento",
                    REDEMPTION |-> "Resgate"]

\* A transaction date 'YYYY-MM-DD' is the integer month * 100 + day: the order
\* of new Date(date).getTime() is the order of these integers.
DateTime(date) == date

\* tx.date.substring(0, 7): the 'YYYY-MM' prefix of the date.
MonthKey(date) == date \div 100

\* A transaction.  An absent (undefined) splitFrom / splitTo is Zero: both are
\* falsy in the Split guard.
Transaction(id, date, ticker, broker, country, category, type, quantity, unitPrice, fees, splitFrom, splitTo) ==
    [id |-> id, date |-> date, ticker |-> ticker, broker |-> broker,
     country |-> country, category |-> category, type |-> type,
     quantity |-> quantity, unitPrice |-> unitPrice, fees |-> fees,
     splitFrom |-> splitFrom, splitTo |-> splitTo]

\* key = `${tx.country}:${tx.ticker}:${tx.broker}`
PositionKey(tx) == <<tx.country, tx.ticker, tx.broker>>

\* tickerKey = `${tx.country}:${tx.ticker}`
TickerKey(tx) == <<tx.country, tx.ticker>>

\* The position created on the first reference of a key.
NewPosition(tx) ==
    [ticker |-> tx.ticker, broker |-> tx.broker, country |-> tx.country,
     category |-> tx.category,
     totalQuantity |-> Zero, averagePrice |-> Zero, totalInvested |-> Zero,
     totalDividends |-> Zero, lots |-> <<>>]

KeyOf(pos) == <<pos.country, pos.ticker, pos.broker>>

\* positions is the Record<string, Position> in insertion order, as the
\* sequence of its values.
HasPosition(ps, key) == \E i \in 1..Len(ps) : KeyOf(ps[i]) = key

\* Faulty variant of PositionIndex: the broker is left out of the key.
PositionIndexIgnoringBroker(ps, key) ==
    CHOOSE k \in 1..Len(ps) : ps[k].country = key[1] /\ ps[k].ticker = key[2]

PositionIndex(ps, key) == CHOOSE i \in 1..Len(ps) : KeyOf(ps[i]) = key
PositionAt(ps, key) == ps[PositionIndex(ps, key)]

\* Sum of a sequence of rationals, left to right (Array.reduce).
RECURSIVE SumSeq(_)
SumSeq(s) == IF s = <<>> THEN Zero
             ELSE RAdd(SumSeq(SubSeq(s, 1, Len(s) - 1)), s[Len(s)])

LotQuantities(lots) == [i \in 1..Len(lots) |-> lots[i].quantity]

-----------------------------------------------------------------------------
(* The branches of the replay loop, each on the transaction's position *)

\* --- Buy ---
BuyPosition(pos, tx) ==
    LET operationCost == RAdd(RMul(tx.quantity, tx.unitPrice), tx.fees)
        previousCost  == RMul(pos.totalQuantity, pos.averagePrice)
        totalQuantity == RAdd(pos.totalQuantity, tx.quantity)
        averagePrice  == IF GtEpsilon(totalQuantity)
                         THEN RDiv(RAdd(previousCost, operationCost), totalQuantity)
                         ELSE pos.averagePrice
    IN  [pos EXCEPT !.totalQuantity = totalQuantity,
                    !.averagePrice  = averagePrice,
                    !.totalInvested = RMul(totalQuantity, averagePrice),
                    !.lots = Append(pos.lots,
                                [date |-> tx.date, quantity |-> tx.quantity,
                                 originalQuantity |-> tx.quantity,
                                 unitPrice |-> tx.unitPrice, fees |-> tx.fees])]

\* --- Bonus (zero cost) ---
BonusPosition(pos, tx) ==
    LET totalQuantity == RAdd(pos.totalQuantity, tx.quantity)
    IN  [pos EXCEPT !.totalQuantity = totalQuantity,
                    !.averagePrice  = IF GtEpsilon(totalQuantity)
                                      THEN RDiv(pos.totalInvested, totalQuantity)
                                      ELSE pos.averagePrice,
                    !.lots = Append(pos.lots,
                                [date |-> tx.date, quantity |-> tx.quantity,
                                 originalQuantity |-> tx.quantity,
                                 unitPrice |-> Zero, fees |-> Zero])]

\* Faulty variant of SplitGuard: the sign of splitFrom is not tested.
SplitGuardWithoutSign(tx) ==
    /\ ~IsZero(tx.splitFrom)
    /\ ~IsZero(tx.splitTo)

\* tx.splitFrom && tx.splitTo && tx.splitFrom > 0
SplitGuard(tx) ==
    /\ ~IsZero(tx.splitFrom)
    /\ ~IsZero(tx.splitTo)
    /\ RLt(Zero, tx.splitFrom)

\* --- Split: every lot is rescaled, totalInvested is left alone ---
SplitLot(lot, ratio) ==
    [lot EXCEPT !.unitPrice = RDiv(lot.unitPrice, ratio),
                !.quantity  = RMul(lot.quantity, ratio),
                !.originalQuantity = RMul(lot.originalQuantity, ratio)]

SplitPosition(pos, tx) ==
    LET ratio == RDiv(tx.splitTo, tx.splitFrom)
        lots  == [i \in 1..Len(pos.lots) |-> SplitLot(pos.lots[i], ratio)]
        totalQuantity == SumSeq(LotQuantities(lots))
    IN  [pos EXCEPT !.lots = lots,
                    !.totalQuantity = totalQuantity,
                    !.averagePrice  = IF GtEpsilon(totalQuantity)
                                      THEN RDiv(pos.totalInvested, totalQuantity)
                                      ELSE Zero]

\* Faulty variant of BuyFeesPerUnit: the fees are spread over the quantity the
\* lot still holds.
BuyFeesPerRemainingUnit(lot) ==
    IF RLt(Zero, lot.quantity) THEN RDiv(lot.fees, lot.quantity)
    ELSE Zero

\* --- Sell / Redemption: the FIFO loop over lotsCopy ---
\* One MatchedLot and the cost basis of what one iteration takes from the
\* head lot.
BuyFeesPerUnit(lot) ==
    IF RLt(Zero, lot.originalQuantity) THEN RDiv(lot.fees, lot.originalQuantity)
    ELSE Zero

LotCostBasis(lot, qtyToConsume) ==
    RMul(qtyToConsume, RAdd(lot.unitPrice, BuyFeesPerUnit(lot)))


\* The locals of the Sell branch before any sale was entered.
NotEntered ==
    [index |-> 0, lotsCopy |-> <<>>, remainingToSell |-> Zero,
     totalCostBasisOfSoldUnits |-> Zero, currentMatches |-> <<>>]

\* let remainingToSell = tx.quantity; ... const lotsCopy = [...pos.lots];
\* index: the place in sortedTx of the sale the locals belong to.
EnterWhile(index, pos, tx) ==
    [index |-> index, lotsCopy |-> pos.lots, remainingToSell |-> tx.quantity,
     totalCostBasisOfSoldUnits |-> Zero, currentMatches |-> <<>>]

\* while (remainingToSell > EPSILON && lotsCopy.length > 0)
WhileCondition(l) == GtEpsilon(l.remainingToSell) /\ Len(l.lotsCopy) > 0

\* Faulty variant of Shift: a lot is removed only once its quantity is below zero.
ShiftBelowZero(lots, quantity) ==
    IF RLt(quantity, Zero) THEN Tail(lots) ELSE [lots EXCEPT ![1].quantity = quantity]

\* currentLot.quantity -= qtyToConsume; if (currentLot.quantity <= EPSILON) lotsCopy.shift();
Shift(lots, quantity) ==
    IF LeEpsilon(quantity) THEN Tail(lots) ELSE [lots EXCEPT ![1].quantity = quantity]

\* Faulty variant of ConsumeLots: the quantity taken from a lot is not capped
\* at what the lot holds.
RECURSIVE ConsumeLotsUncapped(_, _, _, _)
ConsumeLotsUncapped(lotsCopy, remainingToSell, totalCostBasisOfSoldUnits, currentMatches) ==
    IF GtEpsilon(remainingToSell) /\ Len(lotsCopy) > 0
    THEN LET currentLot   == lotsCopy[1]
             qtyToConsume == remainingToSell
             lotCostBasis == LotCostBasis(currentLot, qtyToConsume)
             quantity     == RSub(currentLot.quantity, qtyToConsume)
         IN  ConsumeLotsUncapped(
                IF LeEpsilon(quantity) THEN Tail(lotsCopy)
                ELSE [lotsCopy EXCEPT ![1].quantity = quantity],
                RSub(remainingToSell, qtyToConsume),
                RAdd(totalCostBasisOfSoldUnits, lotCostBasis),
                Append(currentMatches,
                       [buyDate |-> currentLot.date, quantity |-> qtyToConsume,
                        buyPrice |-> currentLot.unitPrice, costBasis |-> lotCostBasis]))
    ELSE [lots |-> lotsCopy, remainingToSell |-> remainingToSell,
          totalCostBasisOfSoldUnits |-> totalCostBasisOfSoldUnits,
          currentMatches |-> currentMatches]

\* while (remainingToSell > EPSILON && lotsCopy.length > 0) { ... }
\* The result: the lots left, the matches pushed, the cost basis summed and
\* the quantity still to sell.
RECURSIVE ConsumeLots(_, _, _, _)
ConsumeLots(lotsCopy, remainingToSell, totalCostBasisOfSoldUnits, currentMatches) ==
    IF GtEpsilon(remainingToSell) /\ Len(lotsCopy) > 0
    THEN LET currentLot   == lotsCopy[1]
             qtyToConsume == RMin(remainingToSell, currentLot.quantity)
             lotCostBasis == LotCostBasis(currentLot, qtyToConsume)
             quantity     == RSub(currentLot.quantity, qtyToConsume)
         IN  ConsumeLots(
                IF LeEpsilon(quantity) THEN Tail(lotsCopy)
                ELSE [lotsCopy EXCEPT ![1].quantity = quantity],
                RSub(remainingToSell, qtyToConsume),
                RAdd(totalCostBasisOfSoldUnits, lotCostBasis),
                Append(currentMatches,
                       [buyDate |-> currentLot.date, quantity |-> qtyToConsume,
                        buyPrice |-> currentLot.unitPrice, costBasis |-> lotCostBasis]))
    ELSE [lots |-> lotsCopy, remainingToSell |-> remainingToSell,
          totalCostBasisOfSoldUnits |-> totalCostBasisOfSoldUnits,
          currentMatches |-> currentMatches]

\* Faulty variant of FifoMatch: the newest lot is consumed first.
Reverse(s) == [k \in 1..Len(s) |-> s[Len(s) + 1 - k]]
FifoMatchNewestFirst(pos, tx) ==
    LET consumed == ConsumeLots(Reverse(pos.lots), tx.quantity, Zero, <<>>)
    IN  [consumed EXCEPT !.lots = Reverse(consumed.lots)]

FifoMatch(pos, tx) == ConsumeLots(pos.lots, tx.quantity, Zero, <<>>)

\* Faulty variant of SellPosition: the cleanup leaves averagePrice as it was.
SellPositionKeepsAverage(pos, tx, consumed) ==
    LET totalQuantity == RSub(pos.totalQuantity, tx.quantity)
        totalInvested == RSub(pos.totalInvested, consumed.totalCostBasisOfSoldUnits)
    IN  IF AbsLtEpsilon(totalQuantity)
        THEN [pos EXCEPT !.lots = consumed.lots,
                         !.totalQuantity = Zero,
                         !.totalInvested = Zero]
        ELSE [pos EXCEPT !.lots = consumed.lots,
                         !.totalQuantity = totalQuantity,
                         !.totalInvested = totalInvested,
                         !.averagePrice  = RDiv(totalInvested, totalQuantity)]

\* The position update of a sale, with the floating-point residue cleanup.
SellPosition(pos, tx, consumed) ==
    LET totalQuantity == RSub(pos.totalQuantity, tx.quantity)
        totalInvested == RSub(pos.totalInvested, consumed.totalCostBasisOfSoldUnits)
    IN  IF AbsLtEpsilon(totalQuantity)
        THEN [pos EXCEPT !.lots = consumed.lots,
                         !.totalQuantity = Zero,
                         !.totalInvested = Zero,
                         !.averagePrice  = Zero]
        ELSE [pos EXCEPT !.lots = consumed.lots,
                         !.totalQuantity = totalQuantity,
                         !.totalInvested = totalInvested,
                         !.averagePrice  = RDiv(totalInvested, totalQuantity)]

\* Faulty variant of RealizedGain: the sale's fees are not taken off the proceeds.
RealizedGainBeforeFees(tx, consumed) ==
    RSub(RMul(tx.quantity, tx.unitPrice), consumed.totalCostBasisOfSoldUnits)

\* totalProceeds - totalCostBasisOfSoldUnits
RealizedGain(tx, consumed) ==
    RSub(RSub(RMul(tx.quantity, tx.unitPrice), tx.fees),
         consumed.totalCostBasisOfSoldUnits)

RealizedGainDetail(tx, consumed) ==
    [id |-> tx.id, date |-> tx.date, ticker |-> tx.ticker, broker |-> tx.broker,
     country |-> tx.country, category |-> tx.category,
     quantity |-> tx.quantity, sellPrice |-> tx.unitPrice,
     costBasis |-> consumed.totalCostBasisOfSoldUnits,
     gain |-> RealizedGain(tx, consumed), month |-> MonthKey(tx.date)]

\* --- Dividend ---
DividendAmount(tx) == RSub(RMul(tx.quantity, tx.unitPrice), tx.fees)

DividendPosition(pos, tx) ==
    [pos EXCEPT !.totalDividends = RAdd(pos.totalDividends, DividendAmount(tx))]

IsSale(tx) == tx.type = TransactionType.SELL \/ tx.type = TransactionType.REDEMPTION

\* The branch taken for tx on its position.
UpdatePosition(pos, tx) ==
    IF tx.type = TransactionType.BUY THEN BuyPosition(pos, tx)
    ELSE IF tx.type = TransactionType.BONUS THEN BonusPosition(pos, tx)
    ELSE IF tx.type = TransactionType.SPLIT /\ SplitGuard(tx) THEN SplitPosition(pos, tx)
    ELSE IF IsSale(tx) THEN SellPosition(pos, tx, FifoMatch(pos, tx))
    ELSE IF tx.type = TransactionType.DIVIDEND THEN DividendPosition(pos, tx)
    ELSE pos


-----------------------------------------------------------------------------
(* One iteration of sortedTx.forEach, on the whole state of the replay *)

\* obj[k] || 0
Lookup(f, k) == IF k \in DOMAIN f THEN f[k] ELSE Zero

\* obj[k] = v
Assign(f, k, v) == [x \in DOMAIN f \cup {k} |-> IF x = k THEN v ELSE f[x]]

\* tx.country === Country.USA ? usdRate : 1
CurrencyMultiplier(country, rate) == IF country = Country.USA THEN rate ELSE Num(1)

\* positions with the position of tx created if absent.
WithPosition(ps, tx) ==
    IF HasPosition(ps, PositionKey(tx)) THEN ps ELSE Append(ps, NewPosition(tx))

\* Faulty variant of QChange: bonus units are not counted as held.
QChangeWithoutBonus(tx) ==
    IF tx.type = TransactionType.BUY THEN tx.quantity
    ELSE IF IsSale(tx) THEN RSub(Zero, tx.quantity)
    ELSE Zero

\* qChange of the equity curve.
QChange(tx) ==
    IF tx.type = TransactionType.BUY \/ tx.type = TransactionType.BONUS THEN tx.quantity
    ELSE IF IsSale(tx) THEN RSub(Zero, tx.quantity)
    ELSE Zero

\* marketValueBRL: the held quantities above EPSILON at their last known price.
RECURSIVE MarketValueOver(_, _, _, _)
MarketValueOver(keys, quantities, prices, rate) ==
    IF keys = {} THEN Zero
    ELSE LET tk   == CHOOSE k \in keys : TRUE
             qty  == quantities[tk]
             rest == MarketValueOver(keys \ {tk}, quantities, prices, rate)
         IN  IF GtEpsilon(qty)
             THEN RAdd(rest, RMul(RMul(qty, Lookup(prices, tk)),
                                  CurrencyMultiplier(tk[1], rate)))
             ELSE rest

MarketValueBRL(quantities, prices, rate) ==
    MarketValueOver(DOMAIN quantities, quantities, prices, rate)

\* Faulty variant of RecordPoint: a point is pushed for every transaction.
RecordPointPerTransaction(history, date, equity, invested) ==
    Append(history, [date |-> date, equity |-> equity, invested |-> invested])

\* Push a point for a new date, or overwrite the last point of the same date.
RecordPoint(history, date, equity, invested) ==
    LET point == [date |-> date, equity |-> equity, invested |-> invested]
    IN  IF Len(history) = 0 \/ history[Len(history)].date # date
        THEN Append(history, point)
        ELSE [history EXCEPT ![Len(history)] = point]

\* The state the loop starts from (the declarations before forEach).
EmptyReplay ==
    [positions |-> <<>>, gainsByMonth |-> <<>>, sellMatches |-> <<>>,
     realizedGainDetails |-> <<>>, historicalEquity |-> <<>>,
     currentQuantities |-> <<>>, lastKnownPrices |-> <<>>,
     totalInvestedBRL |-> Zero, accumulatedRealizedGainBRL |-> Zero]

\* The global invested-capital accumulator after tx.
InvestedAfter(s, tx, consumed, rate) ==
    IF tx.type = TransactionType.BUY
    THEN RAdd(s.totalInvestedBRL,
              RMul(RAdd(RMul(tx.quantity, tx.unitPrice), tx.fees),
                   CurrencyMultiplier(tx.country, rate)))
    ELSE IF IsSale(tx)
    THEN RSub(s.totalInvestedBRL,
              RMul(consumed.totalCostBasisOfSoldUnits, CurrencyMultiplier(tx.country, rate)))
    ELSE s.totalInvestedBRL

\* The realized-gain accumulator (realized gains and net dividends) after tx.
RealizedAfter(s, tx, consumed, rate) ==
    IF IsSale(tx)
    THEN RAdd(s.accumulatedRealizedGainBRL,
              RMul(RealizedGain(tx, consumed), CurrencyMultiplier(tx.country, rate)))
    ELSE IF tx.type = TransactionType.DIVIDEND
    THEN RAdd(s.accumulatedRealizedGainBRL,
              RMul(DividendAmount(tx), CurrencyMultiplier(tx.country, rate)))
    ELSE s.accumulatedRealizedGainBRL

\* The body of sortedTx.forEach(tx => { ... }).
ReplayTx(s, tx, rate) ==
    LET ps       == WithPosition(s.positions, tx)
        idx      == PositionIndex(ps, PositionKey(tx))
        pos      == ps[idx]
        consumed == FifoMatch(pos, tx)
        prices   == Assign(s.lastKnownPrices, TickerKey(tx), tx.unitPrice)
        quantities == Assign(s.currentQuantities, TickerKey(tx),
                             RAdd(Lookup(s.currentQuantities, TickerKey(tx)), QChange(tx)))
        invested == InvestedAfter(s, tx, consumed, rate)
        realized == RealizedAfter(s, tx, consumed, rate)
        equityPoint == RAdd(MarketValueBRL(quantities, prices, rate), realized)
    IN  [positions |-> [ps EXCEPT ![idx] = UpdatePosition(pos, tx)],
         gainsByMonth |->
            IF IsSale(tx)
            THEN Assign(s.gainsByMonth, MonthKey(tx.date),
                        RAdd(Lookup(s.gainsByMonth, MonthKey(tx.date)),
                             RealizedGain(tx, consumed)))
            ELSE s.gainsByMonth,
         sellMatches |->
            IF IsSale(tx) THEN Assign(s.sellMatches, tx.id, consumed.currentMatches)
            ELSE s.sellMatches,
         realizedGainDetails |->
            IF IsSale(tx) THEN Append(s.realizedGainDetails, RealizedGainDetail(tx, consumed))
            ELSE s.realizedGainDetails,
         historicalEquity |-> RecordPoint(s.historicalEquity, tx.date, equityPoint, invested),
         currentQuantities |-> quantities,
         lastKnownPrices |-> prices,
         totalInvestedBRL |-> invested,
         accumulatedRealizedGainBRL |-> realized]


-----------------------------------------------------------------------------
(* The end of calculateConsolidatedData: tax report and projections *)


\* Faulty variant of StableSort: transactions of the same date change places.
StableSortTiesReversed(s, key) ==
    LET Ahead(j, k) == RLt(key[j], key[k]) \/ (key[j] = key[k] /\ j > k)
        Rank(k) == Cardinality({j \in 1..Len(s) : Ahead(j, k)}) + 1
    IN  [r \in 1..Len(s) |-> s[CHOOSE k \in 1..Len(s) : Rank(k) = r]]

\* Array.prototype.sort with a comparator a - b on a numeric key: ascending
\* by key[k], the key of s[k], and stable, so element j comes ahead of
\* element k iff its key is smaller, or equal with j standing before k.
StableSort(s, key) ==
    LET Ahead(j, k) == RLt(key[j], key[k]) \/ (key[j] = key[k] /\ j < k)
        Rank(k) == Cardinality({j \in 1..Len(s) : Ahead(j, k)}) + 1
    IN  [r \in 1..Len(s) |-> s[CHOOSE k \in 1..Len(s) : Rank(k) = r]]

\* Faulty variant of SortedTx: the list is replayed in the order given.
Unsorted(transactions) == transactions

\* [...transactions].sort((a, b) => new Date(a.date).getTime() - new Date(b.date).getTime())
DateKeys(transactions) ==
    [k \in 1..Len(transactions) |-> Num(DateTime(transactions[k].date))]

SortedTx(transactions) == StableSort(transactions, DateKeys(transactions))

\* The months of the details given, each once, in order of first appearance.
RECURSIVE MonthsOf(_)
MonthsOf(details) ==
    IF details = <<>> THEN <<>>
    ELSE LET rest == MonthsOf(SubSeq(details, 1, Len(details) - 1))
             m    == details[Len(details)].month
         IN  IF \E k \in 1..Len(rest) : rest[k] = m THEN rest ELSE Append(rest, m)

\* Tax-rule literals: the exemption threshold and the rates 0.15 and 0.20.
ExemptionLimit == 20000
StockTaxRate   == Rat(15, 100)
FiiTaxRate     == Rat(20, 100)
FixedTaxRate   == Rat(15, 100)

Gains(details) == [k \in 1..Len(details) |-> details[k].gain]
Sales(details) == [k \in 1..Len(details) |-> RMul(details[k].quantity, details[k].sellPrice)]

\* Faulty variant of IsExempt: sales of exactly the limit are not exempt.
IsExemptBelowLimit(totalSalesBRL) == RLt(totalSalesBRL, Num(ExemptionLimit))

\* const isExempt = summary.totalSalesBRL <= 20000
IsExempt(totalSalesBRL) == RLe(totalSalesBRL, Num(ExemptionLimit))

\* Faulty variant of StockTax: the exemption is not looked at.
StockTaxIgnoringExemption(isExempt, stockGain) ==
    IF RLt(Zero, stockGain) THEN RMul(stockGain, StockTaxRate) ELSE Zero

\* (!isExempt && stockGain > 0) ? stockGain * 0.15 : 0
StockTax(isExempt, stockGain) ==
    IF ~isExempt /\ RLt(Zero, stockGain) THEN RMul(stockGain, StockTaxRate) ELSE Zero

\* fiiGain > 0 ? fiiGain * 0.20 : 0
FiiTax(fiiGain) ==
    IF RLt(Zero, fiiGain) THEN RMul(fiiGain, FiiTaxRate) ELSE Zero

\* fixedIncomeGain > 0 ? fixedIncomeGain * 0.15 : 0
FixedIncomeTax(fixedIncomeGain) ==
    IF RLt(Zero, fixedIncomeGain) THEN RMul(fixedIncomeGain, FixedTaxRate) ELSE Zero

\* Faulty variant of TaxableGain: the buckets are netted before the floor at 0.
TaxableGainNetted(isExempt, stockGain, fiiGain, fixedIncomeGain) ==
    RMax(Zero, RAdd(RAdd(IF isExempt THEN Zero ELSE stockGain, fiiGain), fixedIncomeGain))

\* (isExempt ? 0 : Math.max(0, stockGain)) + Math.max(0, fiiGain) + Math.max(0, fixedIncomeGain)
TaxableGain(isExempt, stockGain, fiiGain, fixedIncomeGain) ==
    RAdd(RAdd(IF isExempt THEN Zero ELSE RMax(Zero, stockGain),
              RMax(Zero, fiiGain)),
         RMax(Zero, fixedIncomeGain))

\* One TaxMonthlySummary from the month's local-country details.
TaxSummary(month, details) ==
    LET IsFii(d)   == d.category = AssetCategory.FII
        IsFixed(d) == d.category = AssetCategory.FIXED
        IsStock(d) == ~IsFii(d) /\ ~IsFixed(d)
        IsVariable(d) == d.category = AssetCategory.VARIABLE
        totalSalesBRL   == SumSeq(Sales(SelectSeq(details, IsVariable)))
        stockGain       == SumSeq(Gains(SelectSeq(details, IsStock)))
        fiiGain         == SumSeq(Gains(SelectSeq(details, IsFii)))
        fixedIncomeGain == SumSeq(Gains(SelectSeq(details, IsFixed)))
        isExempt        == IsExempt(totalSalesBRL)
    IN  [month |-> month,
         totalSalesBRL |-> totalSalesBRL,
         taxableGainBRL |-> TaxableGain(isExempt, stockGain, fiiGain, fixedIncomeGain),
         taxDueBRL |-> RAdd(RAdd(StockTax(isExempt, stockGain), FiiTax(fiiGain)),
                            FixedIncomeTax(fixedIncomeGain)),
         isExempt |-> isExempt,
         details |-> details]

\* b.month.localeCompare(a.month): the later month first, as an ascending key.
LaterMonthKeys(entries) == [k \in 1..Len(entries) |-> Num(0 - entries[k].month)]

\* Faulty variant of TaxReport: the details are not restricted to the local
\* country.
TaxReportAllCountries(details) ==
    LET months == MonthsOf(details)
        InMonth(m) == LET Of(d) == d.month = m IN SelectSeq(details, Of)
        summaries == [k \in 1..Len(months) |-> TaxSummary(months[k], InMonth(months[k]))]
    IN  StableSort(summaries, LaterMonthKeys(summaries))

\* taxReport: one summary per month of a local-country sale, latest first.
TaxReport(details) ==
    LET IsLocal(d) == d.country = Country.BR
        local  == SelectSeq(details, IsLocal)
        months == MonthsOf(local)
        InMonth(m) == LET Of(d) == d.month = m IN SelectSeq(local, Of)
        summaries == [k \in 1..Len(months) |-> TaxSummary(months[k], InMonth(months[k]))]
    IN  StableSort(summaries, LaterMonthKeys(summaries))

\* Faulty variant of IsActive: a closed position that paid dividends is dropped.
IsActiveByQuantity(p) == GtEpsilon(p.totalQuantity)

\* activePositions: open or dividend-paying positions, largest invested first.
IsActive(p) == GtEpsilon(p.totalQuantity) \/ GtEpsilon(p.totalDividends)
\* b.totalInvested - a.totalInvested: the larger first, as an ascending key.
MoreInvestedKeys(ps) == [k \in 1..Len(ps) |-> RSub(Zero, ps[k].totalInvested)]
ActivePositions(ps) ==
    LET active == SelectSeq(ps, IsActive)
    IN  StableSort(active, MoreInvestedKeys(active))

\* realizedGains: gainsByMonth as {month, gain} entries, latest month first.
RECURSIVE MonthEntries(_, _)
MonthEntries(months, gains) ==
    IF months = {} THEN <<>>
    ELSE LET m == CHOOSE x \in months : \A y \in months : x >= y
         IN  <<[month |-> m, gain |-> gains[m]]>> \o MonthEntries(months \ {m}, gains)

RealizedGainsArray(gains) == MonthEntries(DOMAIN gains, gains)

\* The value returned from the state the replay ended in.
Result(s) ==
    [activePositions |-> ActivePositions(s.positions),
     realizedGains |-> RealizedGainsArray(s.gainsByMonth),
     sellMatches |-> s.sellMatches,
     realizedGainDetails |-> s.realizedGainDetails,
     historicalEquity |-> s.historicalEquity,
     taxReport |-> TaxReport(s.realizedGainDetails)]

\* sortedTx.forEach over the whole list.
RECURSIVE ReplayAll(_, _)
ReplayAll(sorted, rate) ==
    IF sorted = <<>> THEN EmptyReplay
    ELSE ReplayTx(ReplayAll(SubSeq(sorted, 1, Len(sorted) - 1), rate),
                  sorted[Len(sorted)], rate)

calculateConsolidatedData(transactions, rate) ==
    Result(ReplayAll(SortedTx(transactions), rate))

-----------------------------------------------------------------------------
(* The replay as a state machine: one step per transaction of sortedTx *)

VARIABLES
    usdRate,                    \* the exchange-rate argument
    sortedTx,                   \* the transactions replayed so far, in replay order
    positions,
    gainsByMonth,
    sellMatches,
    realizedGainDetails,
    historicalEquity,
    currentQuantities,
    lastKnownPrices,
    totalInvestedBRL,
    accumulatedRealizedGainBRL,
    before,                     \* history: positions as the last iteration found them
    transactions,               \* whole calls: the caller's list,
    reordered,                  \*   the same transactions in another order,
    result,                     \*   what the calls on transactions returned, in order,
    resultReordered,            \*   <<what the call on reordered returned>>,
    invocation,                 \*   the number of calls on transactions begun step by step
    whileLoop,                  \* the locals of the Sell branch as its while loop runs
    pc                          \* where a call run step by step is: "forEach" or "return"

replay == <<positions, gainsByMonth, sellMatches, realizedGainDetails,
            historicalEquity, currentQuantities, lastKnownPrices,
            totalInvestedBRL, accumulatedRealizedGainBRL>>

calls == <<transactions, reordered, result, resultReordered, invocation>>

vars == <<usdRate, sortedTx, replay, before, calls, whileLoop, pc>>

\* Longest transaction list replayed step by step.
MaxTx == 4

\* i: the number of iterations run; tx: the transaction of the last one.
i  == Len(sortedTx)
tx == IF i = 0 THEN [id |-> 0, date |-> 0, type |-> "none"] ELSE sortedTx[i]

Replayed ==
    [positions |-> positions, gainsByMonth |-> gainsByMonth,
     sellMatches |-> sellMatches, realizedGainDetails |-> realizedGainDetails,
     historicalEquity |-> historicalEquity, currentQuantities |-> currentQuantities,
     lastKnownPrices |-> lastKnownPrices, totalInvestedBRL |-> totalInvestedBRL,
     accumulatedRealizedGainBRL |-> accumulatedRealizedGainBRL]

InitReplay ==
    /\ usdRate = Num(5)
    /\ sortedTx = <<>>
    /\ positions = EmptyReplay.positions
    /\ gainsByMonth = EmptyReplay.gainsByMonth
    /\ sellMatches = EmptyReplay.sellMatches
    /\ realizedGainDetails = EmptyReplay.realizedGainDetails
    /\ historicalEquity = EmptyReplay.historicalEquity
    /\ currentQuantities = EmptyReplay.currentQuantities
    /\ lastKnownPrices = EmptyReplay.lastKnownPrices
    /\ totalInvestedBRL = EmptyReplay.totalInvestedBRL
    /\ accumulatedRealizedGainBRL = EmptyReplay.accumulatedRealizedGainBRL
    /\ before = <<>>
    /\ whileLoop = NotEntered
    /\ pc = "forEach"

Init ==
    /\ InitReplay
    /\ transactions = <<>>
    /\ reordered = <<>>
    /\ result = <<>>
    /\ resultReordered = <<>>
    /\ invocation = 0

\* The next transaction of sortedTx is t: its date is not before the last one's.
Replay(t) ==
    /\ i < MaxTx
    /\ DateTime(t.date) >= DateTime(tx.date)
    /\ \E s \in {ReplayTx(Replayed, t, usdRate)} :
           /\ positions' = s.positions
           /\ gainsByMonth' = s.gainsByMonth
           /\ sellMatches' = s.sellMatches
           /\ realizedGainDetails' = s.realizedGainDetails
           /\ historicalEquity' = s.historicalEquity
           /\ currentQuantities' = s.currentQuantities
           /\ lastKnownPrices' = s.lastKnownPrices
           /\ totalInvestedBRL' = s.totalInvestedBRL
           /\ accumulatedRealizedGainBRL' = s.accumulatedRealizedGainBRL
    /\ before' = WithPosition(positions, t)
    /\ sortedTx' = Append(sortedTx, t)
    /\ UNCHANGED <<usdRate, calls, whileLoop, pc>>

\* The transactions the ledger specification feeds: one position key, dates
\* on two days, quantities, prices and fees that make partial sales, full
\* liquidations, sales beyond the lots held and zero-quantity purchases happen.
Dates == {101, 102}

LedgerTx(date, type, quantity, unitPrice, fees, splitFrom, splitTo) ==
    Transaction(i + 1, date, "PETR4", "XP", Country.BR, AssetCategory.VARIABLE, type,
                Num(quantity), Num(unitPrice), Num(fees), Num(splitFrom), Num(splitTo))

Buys        == {<<1, 10, 0>>, <<2, 20, 4>>, <<0, 10, 5>>}
Bonuses     == {1}
Splits      == {<<1, 2>>}
Sells       == {<<1, 15, 0>>, <<2, 15, 1>>}
Redemptions == {<<3, 12, 0>>}
Dividends   == {<<1, 2, 0>>}

ProcessBuy ==
    \E d \in Dates, b \in Buys :
        Replay(LedgerTx(d, TransactionType.BUY, b[1], b[2], b[3], 0, 0))

ProcessBonus ==
    \E d \in Dates, q \in Bonuses :
        Replay(LedgerTx(d, TransactionType.BONUS, q, 0, 0, 0, 0))

ProcessSplit ==
    \E d \in Dates, r \in Splits :
        Replay(LedgerTx(d, TransactionType.SPLIT, 0, 0, 0, r[1], r[2]))

ProcessSell ==
    \E d \in Dates, v \in Sells :
        Replay(LedgerTx(d, TransactionType.SELL, v[1], v[2], v[3], 0, 0))

ProcessRedemption ==
    \E d \in Dates, v \in Redemptions :
        Replay(LedgerTx(d, TransactionType.REDEMPTION, v[1], v[2], v[3], 0, 0))

ProcessDividend ==
    \E d \in Dates, v \in Dividends :
        Replay(LedgerTx(d, TransactionType.DIVIDEND, v[1], v[2], v[3], 0, 0))

Next ==
    \/ ProcessBuy
    \/ ProcessBonus
    \/ ProcessSplit
    \/ ProcessSell
    \/ ProcessRedemption
    \/ ProcessDividend

Spec == Init /\ [][Next]_vars


-----------------------------------------------------------------------------
(* Whole calls: the same transactions supplied in two orders *)

\* Longest list given to a whole call.
MaxCallTx == 3

CallTx(id, date, type, quantity, unitPrice, fees) ==
    Transaction(id, date, "PETR4", "XP", Country.BR, AssetCategory.VARIABLE, type,
                Num(quantity), Num(unitPrice), Num(fees), Zero, Zero)

\* The stored transactions a caller's list is drawn from: two days, one of
\* them with a Buy, a Bonus and a Sell.
CallPool ==
    {CallTx(1, 101, TransactionType.BUY, 1, 10, 0),
     CallTx(2, 102, TransactionType.BUY, 2, 20, 4),
     CallTx(3, 102, TransactionType.SELL, 2, 15, 1),
     CallTx(4, 102, TransactionType.BONUS, 1, 0, 0),
     CallTx(5, 101, TransactionType.DIVIDEND, 1, 2, 0)}

Injective(f) == \A a, b \in DOMAIN f : f[a] = f[b] => a = b

\* Lists of distinct stored transactions.
InputLists ==
    UNION {{l \in [1..n -> CallPool] : Injective(l)} : n \in 0..MaxCallTx}

\* The lists that hold the transactions of l in any order.
Reorderings(l) ==
    {[k \in 1..Len(l) |-> l[p[k]]] : p \in {q \in [1..Len(l) -> 1..Len(l)] : Injective(q)}}

InitCalls ==
    /\ InitReplay
    /\ transactions \in InputLists
    /\ reordered \in Reorderings(transactions)
    /\ result = <<>>
    /\ resultReordered = <<>>
    /\ invocation = 0

\* calculateConsolidatedData(transactions, usdRate)
Call ==
    /\ result = <<>>
    /\ result' = <<calculateConsolidatedData(transactions, usdRate)>>
    /\ UNCHANGED <<usdRate, sortedTx, replay, before, transactions, reordered, resultReordered, invocation, whileLoop, pc>>

\* calculateConsolidatedData(reordered, usdRate)
CallReordered ==
    /\ resultReordered = <<>>
    /\ resultReordered' = <<calculateConsolidatedData(reordered, usdRate)>>
    /\ UNCHANGED <<usdRate, sortedTx, replay, before, transactions, reordered, result, invocation, whileLoop, pc>>

NextCalls == Call \/ CallReordered

SpecCalls == InitCalls /\ [][NextCalls]_vars

-----------------------------------------------------------------------------
(* A call replayed to its end and returned: sales of all categories, of both
   countries, in two months *)

\* The end of the call: the tax report and the projections are computed from
\* the state the loop ended in, and the result is returned.
Return ==
    /\ result = <<>>
    /\ result' = <<Result(Replayed)>>
    /\ pc' = "return"
    /\ UNCHANGED <<usdRate, sortedTx, replay, before, transactions, reordered, resultReordered, invocation, whileLoop>>

\* The next transaction of a call that has not returned yet.
ReplayNext(t) == result = <<>> /\ Replay(t)

TaxTx(date, ticker, country, category, type, quantity, unitPrice, fees) ==
    Transaction(i + 1, date, ticker, "XP", country, category, type,
                quantity, unitPrice, fees, Zero, Zero)

\* Two months.
TaxDates == {101, 201}

\* Sales as <<quantity, unitPrice, fees>>.  Equity sales of exactly the
\* exemption limit and of one cent, at a gain and at a loss; fund and
\* fixed-income sales at a gain and at a loss; a foreign sale.
TaxBuys        == {<<Num(1), Num(30000), Zero>>}
EquitySells    == {<<Num(1), Num(20000), Zero>>, <<Num(1), Rat(1, 100), Num(5)>>}
FundSells      == {<<Num(1), Num(100), Zero>>, <<Num(1), Num(10), Num(30)>>}
FixedRedemptions == {<<Num(1), Num(1000), Zero>>, <<Num(1), Num(10), Num(30)>>}
ForeignSells   == {<<Num(1), Num(200), Zero>>}

BuyEquity ==
    \E b \in TaxBuys :
        ReplayNext(TaxTx(101, "PETR4", Country.BR, AssetCategory.VARIABLE,
                         TransactionType.BUY, b[1], b[2], b[3]))

SellEquity ==
    \E d \in TaxDates, v \in EquitySells :
        ReplayNext(TaxTx(d, "PETR4", Country.BR, AssetCategory.VARIABLE,
                         TransactionType.SELL, v[1], v[2], v[3]))

SellFund ==
    \E d \in TaxDates, v \in FundSells :
        ReplayNext(TaxTx(d, "HGLG11", Country.BR, AssetCategory.FII,
                         TransactionType.SELL, v[1], v[2], v[3]))

RedeemFixed ==
    \E d \in TaxDates, v \in FixedRedemptions :
        ReplayNext(TaxTx(d, "CDB", Country.BR, AssetCategory.FIXED,
                         TransactionType.REDEMPTION, v[1], v[2], v[3]))

SellForeign ==
    \E d \in TaxDates, v \in ForeignSells :
        ReplayNext(TaxTx(d, "AAPL", Country.USA, AssetCategory.VARIABLE,
                         TransactionType.SELL, v[1], v[2], v[3]))

NextTax ==
    \/ BuyEquity
    \/ SellEquity
    \/ SellFund
    \/ RedeemFixed
    \/ SellForeign
    \/ Return

SpecTax == Init /\ [][NextTax]_vars

-----------------------------------------------------------------------------
(* The replay over a portfolio of a local and a foreign position *)

PortfolioTx(date, ticker, country, type, quantity, unitPrice, fees, splitFrom, splitTo) ==
    Transaction(i + 1, date, ticker, "XP", country, AssetCategory.VARIABLE, type,
                Num(quantity), Num(unitPrice), Num(fees), Num(splitFrom), Num(splitTo))

\* The second of the two days: the corporate actions and the foreign sale
\* and dividend fall on it.
LaterDates == {102}

\* <<quantity, unitPrice, fees>>, Bonus quantities and <<splitFrom, splitTo>>.
\* The sales can exceed what is held; the foreign dividend's fees exceed its
\* gross amount; the ignored splits have an absent (0) or a negative
\* splitFrom.
LocalBuys        == {<<1, 10, 0>>}
LocalSells       == {<<1, 15, 1>>}
LocalDividends   == {<<1, 2, 0>>}
LocalBonuses     == {1}
LocalSplits      == {<<1, 2>>}
IgnoredSplits    == {<<0, 2>>, <<-1, 2>>}
ForeignBuys      == {<<2, 10, 2>>}
ForeignSales     == {<<1, 12, 0>>}
ForeignDividends == {<<1, 3, 4>>}

LocalBuy ==
    \E d \in Dates, b \in LocalBuys :
        Replay(PortfolioTx(d, "PETR4", Country.BR, TransactionType.BUY, b[1], b[2], b[3], 0, 0))

LocalSell ==
    \E d \in Dates, v \in LocalSells :
        Replay(PortfolioTx(d, "PETR4", Country.BR, TransactionType.SELL, v[1], v[2], v[3], 0, 0))

LocalDividend ==
    \E d \in Dates, v \in LocalDividends :
        Replay(PortfolioTx(d, "PETR4", Country.BR, TransactionType.DIVIDEND, v[1], v[2], v[3], 0, 0))

LocalBonus ==
    \E d \in LaterDates, q \in LocalBonuses :
        Replay(PortfolioTx(d, "PETR4", Country.BR, TransactionType.BONUS, q, 0, 0, 0, 0))

LocalSplit ==
    \E d \in LaterDates, r \in LocalSplits :
        Replay(PortfolioTx(d, "PETR4", Country.BR, TransactionType.SPLIT, 0, 0, 0, r[1], r[2]))

LocalIgnoredSplit ==
    \E d \in LaterDates, r \in IgnoredSplits :
        Replay(PortfolioTx(d, "PETR4", Country.BR, TransactionType.SPLIT, 0, 0, 0, r[1], r[2]))

ForeignBuy ==
    \E d \in Dates, b \in ForeignBuys :
        Replay(PortfolioTx(d, "AAPL", Country.USA, TransactionType.BUY, b[1], b[2], b[3], 0, 0))

ForeignSale ==
    \E d \in LaterDates, v \in ForeignSales :
        Replay(PortfolioTx(d, "AAPL", Country.USA, TransactionType.SELL, v[1], v[2], v[3], 0, 0))

ForeignDividend ==
    \E d \in LaterDates, v \in ForeignDividends :
        Replay(PortfolioTx(d, "AAPL", Country.USA, TransactionType.DIVIDEND, v[1], v[2], v[3], 0, 0))

NextPortfolio ==
    \/ LocalBuy
    \/ LocalSell
    \/ LocalDividend
    \/ LocalBonus
    \/ LocalSplit
    \/ LocalIgnoredSplit
    \/ ForeignBuy
    \/ ForeignSale
    \/ ForeignDividend

SpecPortfolio == Init /\ [][NextPortfolio]_vars

-----------------------------------------------------------------------------
(* Successive calls on the same list, each replayed step by step *)

\* Calls made on the list, one after the other.
MaxInvocations == 2

InitInvoke ==
    /\ InitReplay
    /\ transactions \in InputLists
    /\ reordered = <<>>
    /\ result = <<>>
    /\ resultReordered = <<>>
    /\ invocation = 0

\* Faulty variant of Invoke: the replay state of the call before is kept.
InvokeKeepingState ==
    /\ invocation < MaxInvocations
    /\ Len(result) = invocation
    /\ invocation' = invocation + 1
    /\ pc' = "forEach"
    /\ sortedTx' = <<>>
    /\ UNCHANGED <<usdRate, replay, before, transactions, reordered, result, resultReordered, whileLoop>>

\* The entry of a call once the call before has returned: the list is copied
\* to be sorted and every piece of replay state is declared afresh.
Invoke ==
    /\ invocation < MaxInvocations
    /\ Len(result) = invocation
    /\ invocation' = invocation + 1
    /\ pc' = "forEach"
    /\ sortedTx' = <<>>
    /\ positions' = EmptyReplay.positions
    /\ gainsByMonth' = EmptyReplay.gainsByMonth
    /\ sellMatches' = EmptyReplay.sellMatches
    /\ realizedGainDetails' = EmptyReplay.realizedGainDetails
    /\ historicalEquity' = EmptyReplay.historicalEquity
    /\ currentQuantities' = EmptyReplay.currentQuantities
    /\ lastKnownPrices' = EmptyReplay.lastKnownPrices
    /\ totalInvestedBRL' = EmptyReplay.totalInvestedBRL
    /\ accumulatedRealizedGainBRL' = EmptyReplay.accumulatedRealizedGainBRL
    /\ before' = <<>>
    /\ UNCHANGED <<usdRate, transactions, reordered, result, resultReordered, whileLoop>>

\* The next iteration of forEach over the sorted copy.
ForEachStep ==
    /\ invocation > Len(result)
    /\ i < Len(transactions)
    /\ Replay(SortedTx(transactions)[i + 1])

\* The end of the call in progress.
ReturnResult ==
    /\ invocation > Len(result)
    /\ i = Len(transactions)
    /\ result' = Append(result, Result(Replayed))
    /\ pc' = "return"
    /\ UNCHANGED <<usdRate, sortedTx, replay, before, transactions, reordered, resultReordered, invocation, whileLoop>>

NextInvoke ==
    \/ Invoke
    \/ ForEachStep
    \/ ReturnResult

SpecInvoke == InitInvoke /\ [][NextInvoke]_vars

-----------------------------------------------------------------------------
(* Calls on lists given in any order of dates *)

\* Transactions of a list given to a call.
MaxOrderTx == 4

\* The stored transactions the list is drawn from: purchases and sales on
\* each of two days, and a Bonus on the second.
OrderPool ==
    {CallTx(1, 101, TransactionType.BUY, 3, 10, 0),
     CallTx(2, 101, TransactionType.SELL, 1, 15, 0),
     CallTx(3, 102, TransactionType.BUY, 1, 20, 2),
     CallTx(4, 102, TransactionType.SELL, 1, 25, 1),
     CallTx(5, 102, TransactionType.BONUS, 1, 0, 0)}

\* Lists of distinct stored transactions, in any order.
OrderLists ==
    UNION {{l \in [1..n -> OrderPool] : Injective(l)} : n \in 0..MaxOrderTx}

InitOrder ==
    /\ InitReplay
    /\ transactions \in OrderLists
    /\ reordered = <<>>
    /\ result = <<>>
    /\ resultReordered = <<>>
    /\ invocation = 0

SpecOrder == InitOrder /\ [][NextInvoke]_vars

-----------------------------------------------------------------------------
(* A call run to its end, the while loop of each sale iteration by iteration *)

\* Transactions of a list given to the call.
MaxLoopTx == 4

\* The stored transactions the list is drawn from: lots of quantity 1, 2 and
\* 0, and sales of less than, as much as and more than the lots can hold.
LoopPool ==
    {CallTx(1, 101, TransactionType.BUY, 1, 10, 0),
     CallTx(2, 101, TransactionType.BUY, 2, 20, 4),
     CallTx(3, 101, TransactionType.BUY, 0, 10, 5),
     CallTx(4, 101, TransactionType.SELL, 1, 15, 0),
     CallTx(5, 102, TransactionType.SELL, 2, 15, 1),
     CallTx(6, 102, TransactionType.REDEMPTION, 4, 12, 0)}

LoopLists ==
    UNION {{l \in [1..n -> LoopPool] : Injective(l)} : n \in 0..MaxLoopTx}

InitLoop ==
    /\ InitReplay
    /\ transactions \in LoopLists
    /\ reordered = <<>>
    /\ result = <<>>
    /\ resultReordered = <<>>
    /\ invocation = 0

\* The transaction of the iteration of forEach that comes next.
Upcoming == SortedTx(transactions)[i + 1]

\* The while loop of the upcoming sale has been entered.
InLoop == whileLoop.index = i + 1

\* An iteration of forEach for a transaction that is not a sale.
ForEachOther ==
    /\ result = <<>>
    /\ i < Len(transactions)
    /\ \E t \in {Upcoming} : ~IsSale(t) /\ Replay(t)

\* An iteration of forEach for a sale, up to the while loop.
EnterSale ==
    /\ result = <<>>
    /\ i < Len(transactions)
    /\ ~InLoop
    /\ \E t \in {Upcoming} :
           /\ IsSale(t)
           /\ whileLoop' = EnterWhile(i + 1, PositionAt(WithPosition(positions, t), PositionKey(t)), t)
    /\ UNCHANGED <<usdRate, sortedTx, replay, before, calls, pc>>

\* One iteration of the while loop.
Iterate ==
    /\ InLoop
    /\ WhileCondition(whileLoop)
    /\ \E currentLot \in {whileLoop.lotsCopy[1]} :
       \E qtyToConsume \in {RMin(whileLoop.remainingToSell, currentLot.quantity)} :
       \E buyFeesPerUnit \in {BuyFeesPerUnit(currentLot)} :
       \E unitCost \in {RAdd(currentLot.unitPrice, buyFeesPerUnit)} :
       \E lotCostBasis \in {RMul(qtyToConsume, unitCost)} :
       \E quantity \in {RSub(currentLot.quantity, qtyToConsume)} :
           whileLoop' =
               [index |-> whileLoop.index,
                lotsCopy |-> Shift(whileLoop.lotsCopy, quantity),
                remainingToSell |-> RSub(whileLoop.remainingToSell, qtyToConsume),
                totalCostBasisOfSoldUnits |-> RAdd(whileLoop.totalCostBasisOfSoldUnits, lotCostBasis),
                currentMatches |->
                    Append(whileLoop.currentMatches,
                           [buyDate |-> currentLot.date, quantity |-> qtyToConsume,
                            buyPrice |-> currentLot.unitPrice, costBasis |-> lotCostBasis])]
    /\ UNCHANGED <<usdRate, sortedTx, replay, before, calls, pc>>

\* The while loop has ended: the rest of the iteration of forEach for the sale.
LeaveSale ==
    /\ InLoop
    /\ ~WhileCondition(whileLoop)
    /\ \E t \in {Upcoming} : Replay(t)

\* The end of the call, once forEach is through the list.
ReturnAtEnd ==
    /\ i = Len(transactions)
    /\ Return

NextLoop ==
    \/ ForEachOther
    \/ EnterSale
    \/ Iterate
    \/ LeaveSale
    \/ ReturnAtEnd

\* What a step of the call moves: the place in the list, the locals of the
\* while loop, the return.
progress == <<sortedTx, whileLoop, pc>>

\* The steps of NextLoop, told by what they do to progress.
Advance ==
    \/ /\ result = <<>>
       /\ i < Len(transactions)
       /\ \E t \in {Upcoming} :
              /\ IsSale(t) => InLoop /\ ~WhileCondition(whileLoop)
              /\ sortedTx' = Append(sortedTx, t)
       /\ UNCHANGED <<whileLoop, pc>>
    \/ EnterSale
    \/ Iterate
    \/ /\ result = <<>>
       /\ i = Len(transactions)
       /\ pc' = "return"
       /\ UNCHANGED <<sortedTx, whileLoop>>

\* The call runs on one thread that takes its next step whenever it has one.
SpecLoop == InitLoop /\ [][NextLoop]_vars /\ WF_progress(Advance)

-----------------------------------------------------------------------------
(* One ticker held at two brokers and in two countries, replayed and returned *)

BrokerTx(country, broker, type, quantity, unitPrice, fees, splitFrom, splitTo) ==
    Transaction(i + 1, 101, "PETR4", broker, country, AssetCategory.VARIABLE, type,
                Num(quantity), Num(unitPrice), Num(fees), Num(splitFrom), Num(splitTo))

\* <<country, broker, quantity, unitPrice, fees>> and, for the Split,
\* <<country, broker, splitFrom, splitTo>>.
BrokerBuys      == {<<Country.BR, "XP", 1, 10, 0>>, <<Country.BR, "Clear", 2, 20, 2>>,
                    <<Country.USA, "XP", 1, 30, 0>>}
BrokerSells     == {<<Country.BR, "XP", 1, 15, 0>>, <<Country.BR, "Clear", 1, 25, 0>>,
                    <<Country.USA, "XP", 1, 40, 0>>}
BrokerDividends == {<<Country.BR, "XP", 1, 2, 0>>}
BrokerSplits    == {<<Country.BR, "Clear", 1, 2>>}

BuyAtBroker ==
    \E b \in BrokerBuys :
        ReplayNext(BrokerTx(b[1], b[2], TransactionType.BUY, b[3], b[4], b[5], 0, 0))

SellAtBroker ==
    \E v \in BrokerSells :
        ReplayNext(BrokerTx(v[1], v[2], TransactionType.SELL, v[3], v[4], v[5], 0, 0))

DividendAtBroker ==
    \E v \in BrokerDividends :
        ReplayNext(BrokerTx(v[1], v[2], TransactionType.DIVIDEND, v[3], v[4], v[5], 0, 0))

SplitAtBroker ==
    \E r \in BrokerSplits :
        ReplayNext(BrokerTx(r[1], r[2], TransactionType.SPLIT, 0, 0, 0, r[3], r[4]))

NextBrokers ==
    \/ BuyAtBroker
    \/ SellAtBroker
    \/ DividendAtBroker
    \/ SplitAtBroker
    \/ Return

SpecBrokers == Init /\ [][NextBrokers]_vars

-----------------------------------------------------------------------------
(* Properties of the replay *)

\* The position of the last transaction, now and as the transaction found it.
Sold      == i > 0 /\ IsSale(tx)
posNow    == PositionAt(positions, PositionKey(tx))
posBefore == PositionAt(before, PositionKey(tx))
matches   == sellMatches[tx.id]
detail    == realizedGainDetails[Len(realizedGainDetails)]

Quantities(ms) == [k \in 1..Len(ms) |-> ms[k].quantity]
CostBases(ms)  == [k \in 1..Len(ms) |-> ms[k].costBasis]

\* Sum over the lots of quantity x (unitPrice + fees / originalQuantity).
RemainingCostBasis(lots) ==
    SumSeq([k \in 1..Len(lots) |-> LotCostBasis(lots[k], lots[k].quantity)])

\* C1: FIFO order.  The MatchedLots of a sale are, in order, the first lots
\* of the position's lot sequence; every matched lot but the last is taken
\* whole, and what the sale leaves is the lot sequence without the lots taken
\* whole: a lot contributes only when every lot ahead of it is used up.
FifoOrder ==
    Sold =>
        LET lots == posBefore.lots
            m    == Len(matches)
            whole == {k \in 1..m : matches[k].quantity = lots[k].quantity}
        IN  /\ m <= Len(lots)
            /\ \A k \in 1..m :
                   /\ matches[k].buyDate = lots[k].date
                   /\ matches[k].buyPrice = lots[k].unitPrice
                   /\ RLe(matches[k].quantity, lots[k].quantity)
            /\ \A k \in 1..(m - 1) : k \in whole
            /\ posNow.lots =
                   IF m = 0 \/ m \in whole
                   THEN SubSeq(lots, m + 1, Len(lots))
                   ELSE <<[lots[m] EXCEPT
                             !.quantity = RSub(lots[m].quantity, matches[m].quantity)]>>
                        \o SubSeq(lots, m + 1, Len(lots))

\* A sale that takes the oldest lot whole and part of the next one, bought on
\* a later day, and leaves lots behind.
FifoOrderWitness ==
    /\ Sold
    /\ Len(matches) >= 2
    /\ matches[1].buyDate < matches[2].buyDate
    /\ matches[1].buyPrice # matches[2].buyPrice
    /\ RLt(Zero, matches[1].quantity)
    /\ RLt(matches[2].quantity, posBefore.lots[2].quantity)
    /\ Len(posNow.lots) >= 1

\* C2: every position's totalInvested is the remaining cost basis of its lots.
InvestedIsRemainingCostBasis ==
    \A k \in 1..Len(positions) :
        positions[k].totalInvested = RemainingCostBasis(positions[k].lots)

\* C3: totalInvested = totalQuantity x averagePrice for every position.
InvestedIsQuantityTimesAverage ==
    \A k \in 1..Len(positions) :
        positions[k].totalInvested =
            RMul(positions[k].totalQuantity, positions[k].averagePrice)

\* C4: no position's totalQuantity is negative.
QuantityNonNegative ==
    \A k \in 1..Len(positions) : RLe(Zero, positions[k].totalQuantity)

\* C5: after Buys only, totalInvested is the sum of quantity x unitPrice + fees.
OnlyBuys == i > 0 /\ \A k \in 1..i : sortedTx[k].type = TransactionType.BUY
BuyCosts == [k \in 1..i |->
                RAdd(RMul(sortedTx[k].quantity, sortedTx[k].unitPrice), sortedTx[k].fees)]

BuysConserveCost ==
    OnlyBuys => posNow.totalInvested = SumSeq(BuyCosts)

\* C6: a sale of exactly the position's totalQuantity leaves totalQuantity,
\* totalInvested and averagePrice at 0.
FullLiquidation == Sold /\ tx.quantity = posBefore.totalQuantity

FullLiquidationZeroes ==
    FullLiquidation =>
        /\ posNow.totalQuantity = Zero
        /\ posNow.totalInvested = Zero
        /\ posNow.averagePrice = Zero

\* A full liquidation of a position that held a positive quantity at a
\* positive cost after a Bonus or a Split.
FullLiquidationWitness ==
    /\ FullLiquidation
    /\ RLt(Zero, posBefore.totalQuantity)
    /\ RLt(Zero, posBefore.totalInvested)
    /\ RLt(Zero, posBefore.averagePrice)
    /\ \E k \in 1..(i - 1) :
           sortedTx[k].type \in {TransactionType.BONUS, TransactionType.SPLIT}

\* C7: a Split with splitFrom > 0 and ratio # 1 leaves totalInvested as it
\* was, and totalQuantity x averagePrice as it was.
DidSplit ==
    /\ i > 0
    /\ tx.type = TransactionType.SPLIT
    /\ SplitGuard(tx)
    /\ tx.splitTo # tx.splitFrom

SplitKeepsInvested ==
    DidSplit => posNow.totalInvested = posBefore.totalInvested

SplitKeepsInvestedAndProduct ==
    DidSplit =>
        /\ posNow.totalInvested = posBefore.totalInvested
        /\ RMul(posNow.totalQuantity, posNow.averagePrice) =
               RMul(posBefore.totalQuantity, posBefore.averagePrice)


\* C8: the realized-gain records are exactly one per Sell / Redemption
\* replayed, under its id; sellMatches has an entry for exactly those ids;
\* each record's costBasis is the sum of its MatchedLots' costBasis and its
\* gain is quantity x unitPrice - fees - costBasis.
SaleIndexes == {k \in 1..i : IsSale(sortedTx[k])}

OneDetailPerSale ==
    /\ Len(realizedGainDetails) = Cardinality(SaleIndexes)
    /\ DOMAIN sellMatches = {sortedTx[k].id : k \in SaleIndexes}
    /\ \A k \in SaleIndexes :
           LET t  == sortedTx[k]
               ds == {j \in 1..Len(realizedGainDetails) : realizedGainDetails[j].id = t.id}
           IN  /\ Cardinality(ds) = 1
               /\ \A j \in ds :
                      LET d == realizedGainDetails[j]
                      IN  /\ d.costBasis = SumSeq(CostBases(sellMatches[t.id]))
                          /\ d.gain = RSub(RSub(RMul(t.quantity, t.unitPrice), t.fees),
                                           d.costBasis)

\* A sale with fees matched against two lots, after transactions of other
\* types that emitted nothing.
OneDetailPerSaleWitness ==
    /\ Sold
    /\ RLt(Zero, tx.fees)
    /\ Len(matches) >= 2
    /\ RLt(Zero, matches[1].costBasis)
    /\ RLt(Zero, matches[2].costBasis)
    /\ Cardinality(SaleIndexes) < i

\* C9: the MatchedLots of a sale sum to min(sell quantity, quantity held in
\* the lots); a sale of more than the lots hold removes every lot and takes
\* its cost basis from those lots alone, its proceeds from the full quantity.
HeldBefore == SumSeq(LotQuantities(posBefore.lots))

UnderMatch ==
    Sold =>
        /\ SumSeq(Quantities(matches)) = RMin(tx.quantity, HeldBefore)
        /\ RLt(HeldBefore, tx.quantity) =>
               /\ posNow.lots = <<>>
               /\ detail.costBasis = RemainingCostBasis(posBefore.lots)
               /\ detail.gain = RSub(RSub(RMul(tx.quantity, tx.unitPrice), tx.fees),
                                     RemainingCostBasis(posBefore.lots))

\* A sale of more than the position's lots hold, the lots holding something.
UnderMatchWitness ==
    /\ Sold
    /\ RLt(Zero, HeldBefore)
    /\ RLt(HeldBefore, tx.quantity)
    /\ Len(matches) >= 2
    /\ \A k \in 1..Len(matches) : RLt(Zero, matches[k].quantity)


\* C10: two calls on lists holding the same transactions return the same
\* result.  As claimed, for every reordering:
BothReturned == Len(result) = 1 /\ Len(resultReordered) = 1

OrderIrrelevant ==
    BothReturned => result = resultReordered

\* The place of the transaction with this id in list l.
PlaceOf(l, id) == CHOOSE k \in 1..Len(l) : l[k].id = id

\* reordered keeps the transactions of each date in the order transactions
\* has them.
SameDateOrderKept ==
    \A a, b \in 1..Len(transactions) :
        (a < b /\ transactions[a].date = transactions[b].date) =>
            PlaceOf(reordered, transactions[a].id) < PlaceOf(reordered, transactions[b].id)

\* C10 as amended: the result is the same for every reordering that keeps
\* the relative order of the transactions of each date.
OrderIrrelevantAcrossDates ==
    (BothReturned /\ SameDateOrderKept) => result = resultReordered

\* Two calls on three transactions of two dates, in different orders that
\* agree on each date, one of the transactions a sale.
OrderIrrelevantWitness ==
    /\ BothReturned
    /\ SameDateOrderKept
    /\ transactions # reordered
    /\ Len(transactions) = 3
    /\ \E a, b \in 1..3 : transactions[a].date # transactions[b].date
    /\ Len(result[1].realizedGainDetails) = 1
    /\ result[1].realizedGainDetails[1].id \in DOMAIN result[1].sellMatches
           /\ result[1].sellMatches[result[1].realizedGainDetails[1].id] # <<>>


-----------------------------------------------------------------------------
(* Properties of the tax report of a returned call *)

Returned  == Len(result) = 1
taxReport == result[1].taxReport

\* The realized-gain records of the local country in month m, in the order
\* the call recorded them, and those of one category among them.
LocalRecords(m) ==
    LET Test(d) == d.country = Country.BR /\ d.month = m
    IN  SelectSeq(result[1].realizedGainDetails, Test)

OfCategory(ds, category) ==
    LET Test(d) == d.category = category IN SelectSeq(ds, Test)

\* The sum of quantity x sellPrice, and of gain, over records.
GrossSales(ds) == SumSeq([k \in 1..Len(ds) |-> RMul(ds[k].quantity, ds[k].sellPrice)])
NetGain(ds)    == SumSeq([k \in 1..Len(ds) |-> ds[k].gain])

EquityGain(m) == NetGain(OfCategory(LocalRecords(m), AssetCategory.VARIABLE))
FundGain(m)   == NetGain(OfCategory(LocalRecords(m), AssetCategory.FII))
FixedGain(m)  == NetGain(OfCategory(LocalRecords(m), AssetCategory.FIXED))

Percent(p, x) == RMul(Rat(p, 100), x)

\* C11: in every monthly summary totalSalesBRL is the sum of quantity x
\* sellPrice over the month's local-country records of the variable-income
\* category only, and isExempt is true exactly when totalSalesBRL <= 20000.
SalesAndExemption ==
    Returned =>
        \A k \in 1..Len(taxReport) :
            LET s == taxReport[k]
            IN  /\ s.totalSalesBRL =
                       GrossSales(OfCategory(LocalRecords(s.month), AssetCategory.VARIABLE))
                /\ s.isExempt <=> RLe(s.totalSalesBRL, Num(20000))

\* A report with a month of equity sales of exactly 20000 next to a fund or
\* fixed-income sale (exempt), and a month of equity sales of 20000.01 (not
\* exempt).
SalesAndExemptionWitness ==
    /\ Returned
    /\ \E k \in 1..Len(taxReport) :
           /\ taxReport[k].totalSalesBRL = Num(20000)
           /\ taxReport[k].isExempt
           /\ \E j \in 1..Len(taxReport[k].details) :
                  /\ taxReport[k].details[j].category # AssetCategory.VARIABLE
                  /\ RLt(Zero, taxReport[k].details[j].sellPrice)
    /\ \E k \in 1..Len(taxReport) :
           /\ taxReport[k].totalSalesBRL = Rat(2000001, 100)
           /\ ~taxReport[k].isExempt

\* C12: taxDueBRL is 15% of the month's net equity gain when positive and the
\* month not exempt, plus 20% of the net fund gain when positive, plus 15% of
\* the net fixed-income gain when positive; a negative bucket contributes 0.
TaxDue ==
    Returned =>
        \A k \in 1..Len(taxReport) :
            LET s == taxReport[k]
                equityTax == IF ~s.isExempt /\ RLt(Zero, EquityGain(s.month))
                             THEN Percent(15, EquityGain(s.month)) ELSE Zero
                fundTax   == IF RLt(Zero, FundGain(s.month))
                             THEN Percent(20, FundGain(s.month)) ELSE Zero
                fixedTax  == IF RLt(Zero, FixedGain(s.month))
                             THEN Percent(15, FixedGain(s.month)) ELSE Zero
            IN  s.taxDueBRL = RAdd(RAdd(equityTax, fundTax), fixedTax)

\* A month that is not exempt, with an equity gain and a fixed-income gain
\* taxed and a fund loss that offsets neither.
TaxDueWitness ==
    /\ Returned
    /\ \E k \in 1..Len(taxReport) :
           LET s == taxReport[k]
           IN  /\ ~s.isExempt
               /\ RLt(Zero, EquityGain(s.month))
               /\ RLt(FundGain(s.month), Zero)
               /\ RLt(Zero, FixedGain(s.month))
               /\ s.taxDueBRL = RAdd(Percent(15, EquityGain(s.month)),
                                     Percent(15, FixedGain(s.month)))

\* C13: taxableGainBRL = (isExempt ? 0 : max(0, equity gain)) + max(0, fund
\* gain) + max(0, fixed-income gain), each bucket's gain being the sum of gain
\* over the month's local-country records of the category.
TaxableBase ==
    Returned =>
        \A k \in 1..Len(taxReport) :
            LET s == taxReport[k]
            IN  s.taxableGainBRL =
                    RAdd(RAdd(IF s.isExempt THEN Zero ELSE RMax(Zero, EquityGain(s.month)),
                              RMax(Zero, FundGain(s.month))),
                         RMax(Zero, FixedGain(s.month)))

\* An exempt month with an equity gain left out of the base, a fund gain in
\* it and a fixed-income loss that does not reduce it.
TaxableBaseWitness ==
    /\ Returned
    /\ \E k \in 1..Len(taxReport) :
           LET s == taxReport[k]
           IN  /\ s.isExempt
               /\ RLt(Zero, EquityGain(s.month))
               /\ RLt(Zero, FundGain(s.month))
               /\ RLt(FixedGain(s.month), Zero)
               /\ s.taxableGainBRL = FundGain(s.month)

\* C14: taxReport has exactly one summary for each month of a local-country
\* Sell or Redemption and none for any other month, each summary's details
\* are that month's local-country records, and the months strictly descend.
LocalSaleIndexes == {k \in SaleIndexes : sortedTx[k].country = Country.BR}
LocalSaleMonths  == {MonthKey(sortedTx[k].date) : k \in LocalSaleIndexes}

OneSummaryPerMonth ==
    Returned =>
        /\ Len(taxReport) = Cardinality(LocalSaleMonths)
        /\ {taxReport[k].month : k \in 1..Len(taxReport)} = LocalSaleMonths
        /\ \A k \in 1..Len(taxReport) :
               /\ taxReport[k].details = LocalRecords(taxReport[k].month)
               /\ {taxReport[k].details[j].id : j \in 1..Len(taxReport[k].details)} =
                      {sortedTx[j].id : j \in {x \in LocalSaleIndexes :
                           MonthKey(sortedTx[x].date) = taxReport[k].month}}
        /\ \A k \in 1..(Len(taxReport) - 1) : taxReport[k].month > taxReport[k + 1].month

\* A report over two months of local sales, one of them with two records,
\* from a call that also replayed a foreign sale.
OneSummaryPerMonthWitness ==
    /\ Returned
    /\ Len(taxReport) = 2
    /\ \E k \in 1..2 : Len(taxReport[k].details) = 2
    /\ \E k \in SaleIndexes : sortedTx[k].country = Country.USA


-----------------------------------------------------------------------------
(* Properties of the equity curve and of the guards *)

lastPoint == historicalEquity[Len(historicalEquity)]

\* The last transaction replayed on the date, and the replay state after it.
LastOfDate(date) ==
    CHOOSE k \in 1..i :
        /\ sortedTx[k].date = date
        /\ \A j \in (k + 1)..i : sortedTx[j].date # date

AfterLastOf(date) == ReplayAll(SubSeq(sortedTx, 1, LastOfDate(date)), usdRate)

\* C15: historicalEquity has exactly one point per distinct transaction
\* date, in strictly increasing date order, and each point holds the equity
\* and the invested capital as they stood after the last transaction of its
\* date.
OnePointPerDate ==
    /\ Len(historicalEquity) = Cardinality({sortedTx[k].date : k \in 1..i})
    /\ \A k \in 1..(Len(historicalEquity) - 1) :
           historicalEquity[k].date < historicalEquity[k + 1].date
    /\ \A k \in 1..Len(historicalEquity) :
           LET point == historicalEquity[k]
               s     == AfterLastOf(point.date)
           IN  /\ \E j \in 1..i : sortedTx[j].date = point.date
               /\ point.invested = s.totalInvestedBRL
               /\ point.equity =
                      RAdd(MarketValueBRL(s.currentQuantities, s.lastKnownPrices, usdRate),
                           s.accumulatedRealizedGainBRL)

\* Two days of two transactions each: the second transaction of each day
\* overwrote the day's point with different values.
OnePointPerDateWitness ==
    /\ i = 4
    /\ Len(historicalEquity) = 2
    /\ sortedTx[1].date = sortedTx[2].date
    /\ sortedTx[3].date = sortedTx[4].date
    /\ LET first == ReplayAll(SubSeq(sortedTx, 1, 1), usdRate).historicalEquity[1]
           third == ReplayAll(SubSeq(sortedTx, 1, 3), usdRate).historicalEquity[2]
       IN  /\ first.invested # historicalEquity[1].invested
           /\ first.equity # historicalEquity[1].equity
           /\ third.equity # historicalEquity[2].equity

\* C16: the invested value recorded after a transaction is the sum over all
\* positions of totalInvested, times the exchange rate for foreign positions.
PositionsInvested ==
    SumSeq([k \in 1..Len(positions) |->
               RMul(positions[k].totalInvested,
                    IF positions[k].country = Country.USA THEN usdRate ELSE Num(1))])

InvestedIsPositionsCostBasis ==
    i > 0 => lastPoint.invested = PositionsInvested

\* The (country, ticker) keys seen, each at the index of its last transaction;
\* the quantity held under the key of transaction k; the realized cash.
IsLastOfKey(k) == \A j \in (k + 1)..i : TickerKey(sortedTx[j]) # TickerKey(sortedTx[k])

HeldQuantity(k) ==
    SumSeq([j \in 1..i |->
               IF TickerKey(sortedTx[j]) # TickerKey(sortedTx[k]) THEN Zero
               ELSE IF sortedTx[j].type \in {TransactionType.BUY, TransactionType.BONUS}
                    THEN sortedTx[j].quantity
               ELSE IF sortedTx[j].type \in {TransactionType.SELL, TransactionType.REDEMPTION}
                    THEN RSub(Zero, sortedTx[j].quantity)
               ELSE Zero])

ExchangeRate(country) == IF country = Country.USA THEN usdRate ELSE Num(1)

KeyValue(k) ==
    RMul(RMul(HeldQuantity(k), sortedTx[k].unitPrice), ExchangeRate(sortedTx[k].country))

RealizedCash ==
    RAdd(SumSeq([k \in 1..Len(realizedGainDetails) |->
                    RMul(realizedGainDetails[k].gain,
                         ExchangeRate(realizedGainDetails[k].country))]),
         SumSeq([k \in 1..i |->
                    IF sortedTx[k].type = TransactionType.DIVIDEND
                    THEN RMul(RSub(RMul(sortedTx[k].quantity, sortedTx[k].unitPrice),
                                   sortedTx[k].fees),
                              ExchangeRate(sortedTx[k].country))
                    ELSE Zero]))

\* C17: the equity recorded after a transaction is the sum over all
\* (country, ticker) keys of heldQuantity x last transaction price of the key
\* (x exchange rate for foreign keys) plus the cumulative realized cash.
EquityIsMarketValuePlusCash ==
    i > 0 =>
        lastPoint.equity =
            RAdd(SumSeq([k \in 1..i |-> IF IsLastOfKey(k) THEN KeyValue(k) ELSE Zero]),
                 RealizedCash)

\* C17 as amended: the sum is over the keys whose heldQuantity exceeds
\* EPSILON; a key sold beyond what was held counts for nothing.
EquityIsHeldMarketValuePlusCash ==
    i > 0 =>
        lastPoint.equity =
            RAdd(SumSeq([k \in 1..i |->
                            IF IsLastOfKey(k) /\ GtEpsilon(HeldQuantity(k))
                            THEN KeyValue(k) ELSE Zero]),
                 RealizedCash)

\* A local and a foreign key both held at a price, one of them after a Bonus,
\* with realized cash on the books.
EquityWitness ==
    /\ i > 0
    /\ \E a, b \in 1..i :
           /\ IsLastOfKey(a) /\ sortedTx[a].country = Country.BR
           /\ IsLastOfKey(b) /\ sortedTx[b].country = Country.USA
           /\ RLt(Zero, KeyValue(a))
           /\ RLt(Zero, KeyValue(b))
    /\ \E k \in 1..i : sortedTx[k].type = TransactionType.BONUS
    /\ ~IsZero(RealizedCash)
    /\ lastPoint.equity # RealizedCash

\* C18: no transaction decreases a position's totalDividends, and only a
\* Dividend changes it.
DividendsNeverDecrease ==
    i > 0 =>
        \A k \in 1..Len(before) :
            /\ RLe(before[k].totalDividends, positions[k].totalDividends)
            /\ tx.type # TransactionType.DIVIDEND =>
                   positions[k].totalDividends = before[k].totalDividends

\* C19: a Split whose splitFrom is absent or not positive leaves the
\* position's totalQuantity, averagePrice, totalInvested, totalDividends and
\* lots as they were and emits no realized-gain record.
IgnoredSplit ==
    /\ i > 0
    /\ tx.type = TransactionType.SPLIT
    /\ ~RLt(Zero, tx.splitFrom)

IgnoredSplitIsNoOp ==
    IgnoredSplit =>
        /\ posNow.totalQuantity = posBefore.totalQuantity
        /\ posNow.averagePrice = posBefore.averagePrice
        /\ posNow.totalInvested = posBefore.totalInvested
        /\ posNow.totalDividends = posBefore.totalDividends
        /\ posNow.lots = posBefore.lots
        /\ \A k \in 1..Len(realizedGainDetails) : realizedGainDetails[k].id # tx.id
        /\ tx.id \notin DOMAIN sellMatches

\* A Split with a negative splitFrom on a position that holds lots and
\* dividends.
IgnoredSplitWitness ==
    /\ IgnoredSplit
    /\ RLt(tx.splitFrom, Zero)
    /\ Len(posBefore.lots) >= 1
    /\ RLt(Zero, posBefore.totalQuantity)
    /\ RLt(Zero, posBefore.totalInvested)
    /\ RLt(Zero, posBefore.totalDividends)


-----------------------------------------------------------------------------
(* Properties of successive calls *)

\* C20: no step of a call changes the caller's list, and the calls made on
\* the list, one after the other at the same exchange rate, all return the
\* same output.
CallsAreIndependent ==
    /\ [][transactions' = transactions]_vars
    /\ [](\A a, b \in 1..Len(result) : result[a] = result[b])

\* Two calls returned on a list of three transactions that was not in date
\* order, with a sale among them and lots left in a position.
CallsAreIndependentWitness ==
    /\ Len(result) = 2
    /\ Len(transactions) = 3
    /\ SortedTx(transactions) # transactions
    /\ Len(result[2].realizedGainDetails) = 1
    /\ Len(result[2].activePositions) = 1
    /\ Len(result[2].activePositions[1].lots) >= 1


-----------------------------------------------------------------------------
(* Properties of the lots *)

\* The replay state the last transaction found.
PrevReplay == ReplayAll(SubSeq(sortedTx, 1, i - 1), usdRate)

\* C23: a Split with splitFrom > 0 rescales every lot of the position:
\* quantity and originalQuantity are multiplied by ratio = splitTo /
\* splitFrom, unitPrice is divided by it, quantity x unitPrice is unchanged,
\* and the position's totalQuantity is ratio times what it was.
SplitApplied ==
    /\ i > 0
    /\ tx.type = TransactionType.SPLIT
    /\ RLt(Zero, tx.splitFrom)
    /\ ~IsZero(tx.splitTo)

SplitRescalesEveryLot ==
    SplitApplied =>
        LET ratio == RDiv(tx.splitTo, tx.splitFrom)
        IN  /\ Len(posNow.lots) = Len(posBefore.lots)
            /\ \A k \in 1..Len(posNow.lots) :
                   /\ posNow.lots[k].quantity = RMul(posBefore.lots[k].quantity, ratio)
                   /\ posNow.lots[k].originalQuantity =
                          RMul(posBefore.lots[k].originalQuantity, ratio)
                   /\ posNow.lots[k].unitPrice = RDiv(posBefore.lots[k].unitPrice, ratio)
                   /\ RMul(posNow.lots[k].quantity, posNow.lots[k].unitPrice) =
                          RMul(posBefore.lots[k].quantity, posBefore.lots[k].unitPrice)
            /\ posNow.totalQuantity = RMul(ratio, posBefore.totalQuantity)

\* C24: a Bonus of quantity q adds q to totalQuantity, leaves totalInvested
\* and the global invested-capital accumulator as they were, sets
\* averagePrice to totalInvested / new totalQuantity, and appends one lot of
\* unitPrice 0 and fees 0 behind the lots there were.
DidBonus == i > 0 /\ tx.type = TransactionType.BONUS

BonusIsZeroCost ==
    DidBonus =>
        /\ posNow.totalQuantity = RAdd(posBefore.totalQuantity, tx.quantity)
        /\ posNow.totalInvested = posBefore.totalInvested
        /\ totalInvestedBRL = PrevReplay.totalInvestedBRL
        /\ ~IsZero(posNow.totalQuantity) =>
               posNow.averagePrice = RDiv(posNow.totalInvested, posNow.totalQuantity)
        /\ posNow.lots =
               Append(posBefore.lots,
                      [date |-> tx.date, quantity |-> tx.quantity,
                       originalQuantity |-> tx.quantity,
                       unitPrice |-> Zero, fees |-> Zero])

\* The cost basis the sales of the key have attributed to lots bought on the
\* date of transaction b.
ConsumedCost(b) ==
    SumSeq([k \in 1..i |->
               IF IsSale(sortedTx[k]) /\ PositionKey(sortedTx[k]) = PositionKey(sortedTx[b])
               THEN LET ms == sellMatches[sortedTx[k].id]
                    IN  SumSeq([j \in 1..Len(ms) |->
                                   IF ms[j].buyDate = sortedTx[b].date
                                   THEN ms[j].costBasis ELSE Zero])
               ELSE Zero])

\* The sales that took something from a lot bought on the date of b.
SalesFrom(b) ==
    {k \in 1..i :
        /\ IsSale(sortedTx[k])
        /\ PositionKey(sortedTx[k]) = PositionKey(sortedTx[b])
        /\ \E j \in 1..Len(sellMatches[sortedTx[k].id]) :
               /\ sellMatches[sortedTx[k].id][j].buyDate = sortedTx[b].date
               /\ RLt(Zero, sellMatches[sortedTx[k].id][j].costBasis)}

\* Transaction b is a Buy of a positive quantity, the only Buy of its key on
\* its date, and its lot is gone from the position: no lot of that date with
\* a price or fees is left (the lots of a Bonus have neither).
BoughtAndConsumed(b) ==
    /\ sortedTx[b].type = TransactionType.BUY
    /\ RLt(Zero, sortedTx[b].quantity)
    /\ \A k \in 1..i :
           (/\ k # b
            /\ sortedTx[k].type = TransactionType.BUY
            /\ PositionKey(sortedTx[k]) = PositionKey(sortedTx[b]))
               => sortedTx[k].date # sortedTx[b].date
    /\ LET lots == PositionAt(positions, PositionKey(sortedTx[b])).lots
       IN  \A k \in 1..Len(lots) :
               lots[k].date = sortedTx[b].date =>
                   IsZero(lots[k].unitPrice) /\ IsZero(lots[k].fees)

\* C25: the costBasis values of the MatchedLots attributed to a lot bought
\* with quantity q > 0, unit price p and fees f and since consumed whole sum
\* to q x p + f.
FeesProratedFromOriginal ==
    \A b \in 1..i :
        BoughtAndConsumed(b) =>
            ConsumedCost(b) =
                RAdd(RMul(sortedTx[b].quantity, sortedTx[b].unitPrice), sortedTx[b].fees)

\* A lot bought with fees and consumed whole by two sales with a Split
\* between them.
FeesProratedWitness ==
    \E b \in 1..i :
        /\ BoughtAndConsumed(b)
        /\ RLt(Zero, sortedTx[b].fees)
        /\ \E k1, k2 \in SalesFrom(b) :
               /\ k1 < k2
               /\ \E m \in (k1 + 1)..(k2 - 1) :
                      sortedTx[m].type = TransactionType.SPLIT /\ SplitGuard(sortedTx[m])

\* C28: every position's totalQuantity is the sum of the remaining
\* quantities of its lots.
QuantityIsSumOfLots ==
    \A k \in 1..Len(positions) :
        positions[k].totalQuantity = SumSeq(LotQuantities(positions[k].lots))

\* C30: every lot a position holds has 0 < quantity <= originalQuantity, and
\* no sale is matched against a lot with nothing left.
LotsHoldSomething ==
    /\ \A k \in 1..Len(positions) :
           \A j \in 1..Len(positions[k].lots) :
               /\ RLt(Zero, positions[k].lots[j].quantity)
               /\ RLe(positions[k].lots[j].quantity, positions[k].lots[j].originalQuantity)
    /\ \A k \in SaleIndexes :
           \A j \in 1..Len(sellMatches[sortedTx[k].id]) :
               RLt(Zero, sellMatches[sortedTx[k].id][j].quantity)


-----------------------------------------------------------------------------
(* Properties of positions side by side *)

activePositions == result[1].activePositions

\* The positions that are open or have paid dividends as the replay ended.
OpenOrPaying ==
    {positions[k] : k \in {j \in 1..Len(positions) :
        GtEpsilon(positions[j].totalQuantity) \/ GtEpsilon(positions[j].totalDividends)}}

\* C21: the returned positions are exactly the positions with totalQuantity >
\* epsilon or totalDividends > epsilon at the end of the replay, each once, in
\* order of non-increasing totalInvested.
ActiveAreOpenOrPaying ==
    Returned =>
        /\ {activePositions[k] : k \in 1..Len(activePositions)} = OpenOrPaying
        /\ Len(activePositions) = Cardinality(OpenOrPaying)
        /\ \A k \in 1..(Len(activePositions) - 1) :
               RLe(activePositions[k + 1].totalInvested, activePositions[k].totalInvested)

\* Three positions: one closed without dividends and left out, one closed
\* that paid dividends and one open, returned in another order than they
\* were created in.
ActiveAreOpenOrPayingWitness ==
    /\ Returned
    /\ Len(positions) = 3
    /\ Len(activePositions) = 2
    /\ \E k \in 1..3 :
           /\ IsZero(positions[k].totalQuantity)
           /\ IsZero(positions[k].totalDividends)
           /\ \E j \in SaleIndexes : PositionKey(sortedTx[j]) = KeyOf(positions[k])
    /\ IsZero(activePositions[2].totalQuantity)
    /\ RLt(Zero, activePositions[2].totalDividends)
    /\ RLt(activePositions[2].totalInvested, activePositions[1].totalInvested)
    /\ \E a, b \in 1..3 :
           a < b /\ positions[a] = activePositions[2] /\ positions[b] = activePositions[1]

\* The place of the last transaction's own position.
Own == CHOOSE k \in 1..Len(before) : KeyOf(before[k]) = PositionKey(tx)

\* C26: a transaction changes the position of its own key only, and the
\* MatchedLots of a sale are taken from the lots of its own position.
OnlyOwnPositionChanges ==
    i > 0 =>
        /\ Len(positions) = Len(before)
        /\ \A k \in 1..Len(before) :
               KeyOf(before[k]) # PositionKey(tx) =>
                   /\ positions[k].totalQuantity = before[k].totalQuantity
                   /\ positions[k].averagePrice = before[k].averagePrice
                   /\ positions[k].totalInvested = before[k].totalInvested
                   /\ positions[k].totalDividends = before[k].totalDividends
                   /\ positions[k].lots = before[k].lots
        /\ IsSale(tx) =>
               /\ Len(sellMatches[tx.id]) <= Len(before[Own].lots)
               /\ \A j \in 1..Len(sellMatches[tx.id]) :
                      /\ sellMatches[tx.id][j].buyPrice = before[Own].lots[j].unitPrice
                      /\ RLe(sellMatches[tx.id][j].quantity, before[Own].lots[j].quantity)

\* A sale at one broker while the other broker and the other country hold
\* lots of the same ticker, bought earlier and at other prices.
OnlyOwnPositionChangesWitness ==
    /\ i > 0
    /\ IsSale(tx)
    /\ Len(before) = 3
    /\ Own = 3
    /\ Len(sellMatches[tx.id]) = 1
    /\ \A k \in 1..2 :
           /\ before[k].ticker = tx.ticker
           /\ Len(before[k].lots) >= 1
           /\ before[k].lots[1].unitPrice # sellMatches[tx.id][1].buyPrice

\* C29: the quantity the equity curve holds for a (country, ticker) key is
\* the sum of totalQuantity over the positions of that country and ticker.
PositionsQuantity(tk) ==
    SumSeq([k \in 1..Len(positions) |->
               IF <<positions[k].country, positions[k].ticker>> = tk
               THEN positions[k].totalQuantity ELSE Zero])

HeldIsPositionsQuantity ==
    \A tk \in DOMAIN currentQuantities : currentQuantities[tk] = PositionsQuantity(tk)


-----------------------------------------------------------------------------
(* Properties of the order of the replay *)

\* The place in the caller's list of the a-th transaction replayed.
InputIndex(a) == CHOOSE k \in 1..Len(transactions) : transactions[k] = sortedTx[a]

\* The places in the caller's list of the transactions not replayed yet.
NotReplayed ==
    {k \in 1..Len(transactions) : \A a \in 1..i : sortedTx[a] # transactions[k]}

\* Transaction t of input place k comes after the a-th transaction replayed:
\* on a later date, or on the same date and later in the caller's list.
ComesAfter(a, t, k) ==
    \/ DateTime(sortedTx[a].date) < DateTime(t.date)
    \/ DateTime(sortedTx[a].date) = DateTime(t.date) /\ InputIndex(a) < k

NonDecreasingDates(s) ==
    \A k \in 1..(Len(s) - 1) : DateTime(s[k].date) <= DateTime(s[k + 1].date)

\* C27: whatever the order of the input list, the transactions are replayed in
\* ascending date order, same-date transactions in their input order; the lots
\* of every position and the realizedGainDetails are in non-decreasing date
\* order at every point of the replay.
ReplayedInDateOrder ==
    /\ \A a \in 1..i : \E k \in 1..Len(transactions) : transactions[k] = sortedTx[a]
    /\ \A a, b \in 1..i : a < b => ComesAfter(a, sortedTx[b], InputIndex(b))
    /\ \A a \in 1..i : \A k \in NotReplayed : ComesAfter(a, transactions[k], k)
    /\ \A k \in 1..Len(positions) : NonDecreasingDates(positions[k].lots)
    /\ NonDecreasingDates(realizedGainDetails)

\* A list given with the later day first, replayed to its end: a purchase
\* and a sale of the earlier day in their input order, two lots and two
\* realized gains of different days.
ReplayedInDateOrderWitness ==
    /\ i = 4
    /\ Len(transactions) = 4
    /\ DateTime(transactions[1].date) > DateTime(transactions[4].date)
    /\ \E a, b \in 1..4 :
           /\ a < b
           /\ transactions[a].date = transactions[b].date
           /\ transactions[a].type = TransactionType.BUY
           /\ transactions[b].type = TransactionType.SELL
    /\ Len(positions) = 1
    /\ Len(positions[1].lots) = 2
    /\ DateTime(positions[1].lots[1].date) < DateTime(positions[1].lots[2].date)
    /\ Len(realizedGainDetails) = 2
    /\ DateTime(realizedGainDetails[1].date) < DateTime(realizedGainDetails[2].date)


-----------------------------------------------------------------------------
(* Termination *)

\* A step of the while loop: one more match has been pushed.
Iterated ==
    /\ whileLoop'.index = whileLoop.index
    /\ Len(whileLoop'.currentMatches) = Len(whileLoop.currentMatches) + 1

\* C22: every iteration of the lot-consumption loop removes a lot or brings
\* the quantity still to sell to zero, and the call on any list ends with a
\* result returned.
ReplayTerminates ==
    /\ [][Iterated =>
             \/ Len(whileLoop'.lotsCopy) < Len(whileLoop.lotsCopy)
             \/ IsZero(whileLoop'.remainingToSell)]_vars
    /\ <>Returned

\* A call that has returned after a last sale of more than the lots held:
\* three lots, one of them of quantity zero, consumed in three iterations,
\* with the matches the replay recorded for the sale.
ReplayTerminatesWitness ==
    /\ Returned
    /\ i = 4
    /\ whileLoop.index = 4
    /\ Len(whileLoop.currentMatches) = 3
    /\ \E k \in 1..3 : IsZero(whileLoop.currentMatches[k].quantity)
    /\ whileLoop.lotsCopy = <<>>
    /\ GtEpsilon(whileLoop.remainingToSell)
    /\ whileLoop.currentMatches = sellMatches[tx.id]

=============================================================================
